---- MODULE Spec2Model ----
(***************************************************************************)
(* Model of heat/engine/template_common.py (class CommonTemplate): the     *)
(* lazily cached condition resolution of a template instance, the          *)
(* condition accessors, the output-condition pass, and the resource        *)
(* definition schema checks.                                               *)
(*                                                                         *)
(* Python values are modelled by strings: the two bool objects are         *)
(* BoolTrue and BoolFalse, None is NoneVal, StrVal is a str object and     *)
(* CondExpr an unresolved condition expression.  A dict is a function      *)
(* whose domain is its key set; the attribute _conditions is <<>> while it *)
(* is None and <<d>> once it holds the dict d (so that None and the empty  *)
(* dict differ).  The result of a call is Return(v) or Raise(exc, args).   *)
(***************************************************************************)
EXTENDS Integers, Sequences, FiniteSets, TLC

VARIABLES
    dialect,       \* which template class the instance is: "base" or "hot"
    cd_snippet,    \* the conditions section of the template (hot dialect)
    _conditions,   \* self._conditions
    first,         \* history: what the first returning conditions() returned
    aborted,       \* history: the last conditions() call died in the evaluator
    tally,         \* history: how often function.resolve took each definition
    pc,            \* the caller: "ready" to call, or "returned" from a call
    op,            \* the method the caller called
    args,          \* its arguments, and what the evaluator does in this call
    pre,           \* _conditions and the history when the call began
    ret,           \* how the call ended: Return(v) or Raise(exc, args)
    evalLog,       \* the conditions handed to function.resolve, in order
    outputs,       \* the caller's outputs dict after the call
    threads,       \* the threads inside conditions(): position and locals
    writes         \* history: the assignments to self._conditions by threads

vars == <<dialect, cd_snippet, _conditions, first, aborted, tally, pc, op,
          args, pre, ret, evalLog, outputs, threads, writes>>

-----------------------------------------------------------------------------
(* Bounds *)

MaxConds == 2
MaxOutputs == 2
\* the calls of function.resolve counted for one definition
MaxEvals == 2

CondNameTable == <<"condA", "condB", "condC", "condD">>
OutputKeyTable == <<"out1", "out2", "out3", "out4">>

CondNames == {CondNameTable[i] : i \in 1..MaxConds}
OutputKeys == {OutputKeyTable[i] : i \in 1..MaxOutputs}
Stacks == {"stack1", "stack2"}
ResNames == {"res1"}

-----------------------------------------------------------------------------
(* Python values *)

BoolTrue == "True"
BoolFalse == "False"
NoneVal == "None"
StrVal == "'yes'"
CondExpr == "{equals: [{get_param: env}, prod]}"
EvalError == "EvalError"

None == <<>>
Some(d) == <<d>>

Return(v) == [kind |-> "return", value |-> v]
Raise(exc, a) == [kind |-> "raise", exc |-> exc, args |-> a]

isinstance_bool(v) == v \in {BoolTrue, BoolFalse}

\* The keys of a dict in iteration order: the order in which the template
\* lists them, which is the order of the name table.
RECURSIVE iteritems(_, _, _)
iteritems(d, table, i) ==
    IF i > Len(table) THEN <<>>
    ELSE (IF table[i] \in DOMAIN d THEN <<table[i]>> ELSE <<>>)
         \o iteritems(d, table, i + 1)

\* all dicts with keys among K and values among V
Dicts(K, V) == UNION {[D -> V] : D \in SUBSET K}

-----------------------------------------------------------------------------
(* Class attributes supplied by the template dialect *)

RESOURCES == "resources"
OUTPUTS == "outputs"
CONDITION == "condition"
RES_CONDITION == "condition"
OUTPUT_CONDITION == "condition"
OUTPUT_VALUE == "value"

-----------------------------------------------------------------------------
(* Dialect hooks *)

\* The hooks as CommonTemplate defines them, and as a dialect that has a
\* conditions section overrides them.
base_get_condition_definitions == <<>>

base_has_condition_section(snippet) == FALSE

hot_get_condition_definitions == cd_snippet

hot_has_condition_section(snippet) == CONDITION \in DOMAIN snippet

get_condition_definitions ==
    IF dialect = "base" THEN base_get_condition_definitions
    ELSE hot_get_condition_definitions

has_condition_section(snippet) ==
    IF dialect = "base" THEN base_has_condition_section(snippet)
    ELSE hot_has_condition_section(snippet)

\* the function-evaluation subsystem (parse_condition, then function.resolve):
\* ev gives, for this call, what each unresolved definition evaluates to
function_resolve(ev, cd_key) == ev[cd_key]

-----------------------------------------------------------------------------
(* The condition resolver.  Every method is an operator from the instance   *)
(* state it reads (cache, the value of self._conditions) and its arguments  *)
(* to a record: ret, how it ends; cache, self._conditions afterwards; log,  *)
(* the conditions it handed to the evaluator, in order.                     *)

\* a loop that leaves the literal booleans out of its result
RECURSIVE resolve_conditions_loop_skips(_, _, _, _, _, _)
resolve_conditions_loop_skips(cd_snippet_, order, i, result, log, ev) ==
    IF i > Len(order)
    THEN [ret |-> Return(result), log |-> log]
    ELSE LET cd_key == order[i]
             cd_value == cd_snippet_[cd_key]
         IN  IF ~isinstance_bool(cd_value)
             THEN LET resolved_cd_value == function_resolve(ev, cd_key)
                  IN  IF resolved_cd_value = EvalError
                      THEN [ret |-> Raise(EvalError, <<cd_key>>),
                            log |-> Append(log, cd_key)]
                      ELSE resolve_conditions_loop_skips(cd_snippet_, order,
                               i + 1, (cd_key :> resolved_cd_value) @@ result,
                               Append(log, cd_key), ev)
             ELSE resolve_conditions_loop_skips(cd_snippet_, order, i + 1,
                      result, log, ev)

\* a loop that stops at a failed evaluation and returns what it has
RECURSIVE resolve_conditions_loop_stops(_, _, _, _, _, _)
resolve_conditions_loop_stops(cd_snippet_, order, i, result, log, ev) ==
    IF i > Len(order)
    THEN [ret |-> Return(result), log |-> log]
    ELSE LET cd_key == order[i]
             cd_value == cd_snippet_[cd_key]
         IN  IF ~isinstance_bool(cd_value)
             THEN LET resolved_cd_value == function_resolve(ev, cd_key)
                  IN  IF resolved_cd_value = EvalError
                      THEN [ret |-> Return(result),
                            log |-> Append(log, cd_key)]
                      ELSE resolve_conditions_loop_stops(cd_snippet_, order,
                               i + 1, (cd_key :> resolved_cd_value) @@ result,
                               Append(log, cd_key), ev)
             ELSE resolve_conditions_loop_stops(cd_snippet_, order, i + 1,
                      (cd_key :> cd_value) @@ result, log, ev)

RECURSIVE resolve_conditions_loop(_, _, _, _, _, _)
resolve_conditions_loop(cd_snippet_, order, i, result, log, ev) ==
    IF i > Len(order)
    THEN [ret |-> Return(result), log |-> log]
    ELSE LET cd_key == order[i]
             cd_value == cd_snippet_[cd_key]
         IN  IF ~isinstance_bool(cd_value)
             THEN LET resolved_cd_value == function_resolve(ev, cd_key)
                  IN  IF resolved_cd_value = EvalError
                      THEN [ret |-> Raise(EvalError, <<cd_key>>),
                            log |-> Append(log, cd_key)]
                      ELSE resolve_conditions_loop(cd_snippet_, order, i + 1,
                               (cd_key :> resolved_cd_value) @@ result,
                               Append(log, cd_key), ev)
             ELSE resolve_conditions_loop(cd_snippet_, order, i + 1,
                      (cd_key :> cd_value) @@ result, log, ev)

\* resolve_conditions that answers from self._conditions once it is set
resolve_conditions_cached(cache, stack, ev) ==
    IF cache # None
    THEN [ret |-> Return(cache[1]), cache |-> cache, log |-> <<>>]
    ELSE LET cd_snippet_ == get_condition_definitions
             r == resolve_conditions_loop(cd_snippet_,
                      iteritems(cd_snippet_, CondNameTable, 1), 1, <<>>,
                      <<>>, ev)
         IN  [ret |-> r.ret, cache |-> cache, log |-> r.log]

resolve_conditions(cache, stack, ev) ==
    LET cd_snippet_ == get_condition_definitions
        r == resolve_conditions_loop(cd_snippet_,
                 iteritems(cd_snippet_, CondNameTable, 1), 1, <<>>, <<>>, ev)
    IN  [ret |-> r.ret, cache |-> cache, log |-> r.log]

\* a check that takes any value that is not None for a bool
first_none(resolved_cds, order, i) ==
    IF i > Len(order) THEN <<>>
    ELSE IF \E j \in i..Len(order) : resolved_cds[order[j]] = NoneVal
    THEN <<order[CHOOSE j \in i..Len(order) : resolved_cds[order[j]] = NoneVal]>>
    ELSE <<>>

\* the first key, in iteration order, whose resolved value is not a bool
RECURSIVE first_non_bool(_, _, _)
first_non_bool(resolved_cds, order, i) ==
    IF i > Len(order) THEN <<>>
    ELSE IF ~isinstance_bool(resolved_cds[order[i]]) THEN <<order[i]>>
    ELSE first_non_bool(resolved_cds, order, i + 1)

validate_condition_definitions(cache, stack, ev) ==
    LET r == resolve_conditions(cache, stack, ev)
    IN  IF r.ret.kind = "raise" THEN r
        ELSE LET resolved_cds == r.ret.value
                 bad == first_non_bool(resolved_cds,
                            iteritems(resolved_cds, CondNameTable, 1), 1)
             IN  IF resolved_cds # <<>> /\ bad # <<>>
                 THEN [ret |-> Raise("InvalidConditionDefinition",
                                     [cd |-> bad[1],
                                      definition |-> resolved_cds[bad[1]]]),
                       cache |-> r.cache, log |-> r.log]
                 ELSE [ret |-> Return(NoneVal), cache |-> r.cache,
                       log |-> r.log]

\* The steps of conditions(), for callers that may interleave: the test of
\* self._conditions, the assignment to it and the read that is returned.
conditions_check(cache) == cache = None

\* an assignment that keeps a dict that is already there
conditions_store_if_unset(cache, result) ==
    IF cache = None THEN Some(result) ELSE cache

conditions_store(cache, result) == Some(result)

conditions_return(cache) ==
    IF cache = None THEN Return(NoneVal) ELSE Return(cache[1])

\* conditions() that resolves but does not keep the result
conditions_forgets(cache, stack, ev) ==
    IF cache = None
    THEN resolve_conditions(cache, stack, ev)
    ELSE [ret |-> Return(cache[1]), cache |-> cache, log |-> <<>>]

\* conditions() that binds self._conditions to the dict before it is filled
conditions_caches_early(cache, stack, ev) ==
    IF cache = None
    THEN LET r == resolve_conditions(cache, stack, ev)
         IN  IF r.ret.kind = "raise"
             THEN [ret |-> r.ret, cache |-> Some(<<>>), log |-> r.log]
             ELSE [ret |-> Return(r.ret.value), cache |-> Some(r.ret.value),
                   log |-> r.log]
    ELSE [ret |-> Return(cache[1]), cache |-> cache, log |-> <<>>]

conditions(cache, stack, ev) ==
    IF cache = None
    THEN LET r == resolve_conditions(cache, stack, ev)
         IN  IF r.ret.kind = "raise" THEN r
             ELSE [ret |-> Return(r.ret.value), cache |-> Some(r.ret.value),
                   log |-> r.log]
    ELSE [ret |-> Return(cache[1]), cache |-> cache, log |-> <<>>]

\* a lookup that includes the entity when its condition is not defined
get_condition_default_true(cache, snippet, stack, path, ev) ==
    IF has_condition_section(snippet)
    THEN LET cd_key == snippet[CONDITION]
             c == conditions(cache, stack, ev)
         IN  IF c.ret.kind = "raise" THEN c
             ELSE LET cds == c.ret.value
                  IN  [ret |-> Return(IF cd_key \in DOMAIN cds
                                      THEN cds[cd_key] ELSE BoolTrue),
                       cache |-> c.cache, log |-> c.log]
    ELSE [ret |-> Return(BoolTrue), cache |-> cache, log |-> <<>>]

\* a lookup that fetches the conditions before it looks at the snippet
get_condition_eager(cache, snippet, stack, path, ev) ==
    LET c == conditions(cache, stack, ev)
    IN  IF c.ret.kind = "raise" THEN c
        ELSE IF has_condition_section(snippet)
        THEN LET cd_key == snippet[CONDITION]
                 cds == c.ret.value
             IN  IF cd_key \notin DOMAIN cds
                 THEN [ret |-> Raise("InvalidConditionReference",
                                     [cd |-> cd_key, path |-> path]),
                       cache |-> c.cache, log |-> c.log]
                 ELSE [ret |-> Return(cds[cd_key]), cache |-> c.cache,
                       log |-> c.log]
        ELSE [ret |-> Return(BoolTrue), cache |-> c.cache, log |-> c.log]

\* a lookup that checks the name against the definitions before it fetches
\* the conditions
get_condition_checks_first(cache, snippet, stack, path, ev) ==
    IF has_condition_section(snippet)
    THEN LET cd_key == snippet[CONDITION]
         IN  IF cd_key \notin DOMAIN get_condition_definitions
             THEN [ret |-> Raise("InvalidConditionReference",
                                 [cd |-> cd_key, path |-> path]),
                   cache |-> cache, log |-> <<>>]
             ELSE LET c == conditions(cache, stack, ev)
                  IN  IF c.ret.kind = "raise" THEN c
                      ELSE [ret |-> Return(c.ret.value[cd_key]),
                            cache |-> c.cache, log |-> c.log]
    ELSE [ret |-> Return(BoolTrue), cache |-> cache, log |-> <<>>]

\* a lookup that takes the entry out of the dict it was handed
get_condition_pops(cache, snippet, stack, path, ev) ==
    IF has_condition_section(snippet)
    THEN LET cd_key == snippet[CONDITION]
             c == conditions(cache, stack, ev)
         IN  IF c.ret.kind = "raise" THEN c
             ELSE LET cds == c.ret.value
                  IN  IF cd_key \notin DOMAIN cds
                      THEN [ret |-> Raise("InvalidConditionReference",
                                          [cd |-> cd_key, path |-> path]),
                            cache |-> c.cache, log |-> c.log]
                      ELSE [ret |-> Return(cds[cd_key]),
                            cache |-> Some([k \in DOMAIN cds \ {cd_key}
                                              |-> cds[k]]),
                            log |-> c.log]
    ELSE [ret |-> Return(BoolTrue), cache |-> cache, log |-> <<>>]

\* a lookup that resolves the definitions itself, past the cache
get_condition_resolves(cache, snippet, stack, path, ev) ==
    IF has_condition_section(snippet)
    THEN LET cd_key == snippet[CONDITION]
             c == resolve_conditions(cache, stack, ev)
         IN  IF c.ret.kind = "raise" THEN c
             ELSE LET cds == c.ret.value
                  IN  IF cd_key \notin DOMAIN cds
                      THEN [ret |-> Raise("InvalidConditionReference",
                                          [cd |-> cd_key, path |-> path]),
                            cache |-> c.cache, log |-> c.log]
                      ELSE [ret |-> Return(cds[cd_key]), cache |-> c.cache,
                            log |-> c.log]
    ELSE [ret |-> Return(BoolTrue), cache |-> cache, log |-> <<>>]

get_condition(cache, snippet, stack, path, ev) ==
    IF has_condition_section(snippet)
    THEN LET cd_key == snippet[CONDITION]
             c == conditions(cache, stack, ev)
         IN  IF c.ret.kind = "raise" THEN c
             ELSE LET cds == c.ret.value
                  IN  IF cd_key \notin DOMAIN cds
                      THEN [ret |-> Raise("InvalidConditionReference",
                                          [cd |-> cd_key, path |-> path]),
                            cache |-> c.cache, log |-> c.log]
                      ELSE [ret |-> Return(cds[cd_key]), cache |-> c.cache,
                            log |-> c.log]
    ELSE [ret |-> Return(BoolTrue), cache |-> cache, log |-> <<>>]

\* '.'.join(parts)
RECURSIVE join(_, _)
join(sep, parts) ==
    IF parts = <<>> THEN ""
    ELSE IF Len(parts) = 1 THEN parts[1]
    ELSE parts[1] \o sep \o join(sep, Tail(parts))

get_res_condition(cache, stack, res_data, res_name, ev) ==
    LET path == IF has_condition_section(res_data)
                THEN join(".", <<RESOURCES, res_name, RES_CONDITION>>)
                ELSE ""
    IN  get_condition(cache, res_data, stack, path, ev)

get_output_condition(cache, stack, o_data, o_key, ev) ==
    LET path == join(".", <<OUTPUTS, o_key, OUTPUT_CONDITION>>)
    IN  get_condition(cache, o_data, stack, path, ev)

-----------------------------------------------------------------------------
(* Objects.  parse_outputs_conditions writes into dicts, so its outputs     *)
(* argument lives in a heap: a sequence of objects addressed by position.   *)
(* An outputs dict maps each output key to the address of its snippet dict. *)

IndexOf(seq, x) == CHOOSE i \in 1..Len(seq) : seq[i] = x

\* the heap holding just the outputs dict outs, at address 1
new_heap(outs) ==
    LET keys == iteritems(outs, OutputKeyTable, 1)
    IN  <<[k \in DOMAIN outs |-> 1 + IndexOf(keys, k)]>>
        \o [i \in 1..Len(keys) |-> outs[keys[i]]]

\* the value of the outputs dict at address ref
deref(heap, ref) == [k \in DOMAIN heap[ref] |-> heap[heap[ref][k]]]

\* copy.copy(outputs): a new dict of the same snippet dicts
shallow_copy(heap, ref) == [heap |-> Append(heap, heap[ref]), ref |-> Len(heap) + 1]

\* copy.deepcopy(outputs): a new dict of new snippet dicts
deepcopy(heap, ref) ==
    LET keys == iteritems(heap[ref], OutputKeyTable, 1)
        n == Len(heap)
    IN  [heap |-> heap
                  \o <<[k \in DOMAIN heap[ref] |-> n + 1 + IndexOf(keys, k)]>>
                  \o [i \in 1..Len(keys) |-> heap[heap[ref][keys[i]]]],
         ref |-> n + 1]

\* snippet[key] = value
setitem(d, key, value) == (key :> value) @@ d

\* a test that takes every resolved condition for true
truth_is_not_none(v) == v # NoneVal

\* Python truth value of a resolved condition
truth(v) == v \notin {BoolFalse, NoneVal, ""}

RECURSIVE parse_outputs_conditions_loop(_, _, _, _, _, _, _, _)
parse_outputs_conditions_loop(cache, heap, copy_outputs, order, i, log, stack, ev) ==
    IF i > Len(order)
    THEN [ret |-> Return(copy_outputs), cache |-> cache, log |-> log,
          heap |-> heap]
    ELSE LET key == order[i]
             snippet == heap[copy_outputs][key]
         IN  IF has_condition_section(heap[snippet])
             THEN LET r == get_output_condition(cache, stack, heap[snippet],
                                                key, ev)
                  IN  IF r.ret.kind = "raise"
                      THEN [ret |-> r.ret, cache |-> r.cache,
                            log |-> log \o r.log, heap |-> heap]
                      ELSE LET cd == r.ret.value
                               s1 == setitem(heap[snippet], OUTPUT_CONDITION,
                                             cd)
                               s2 == IF ~truth(cd)
                                     THEN setitem(s1, OUTPUT_VALUE, NoneVal)
                                     ELSE s1
                           IN  parse_outputs_conditions_loop(r.cache,
                                   [heap EXCEPT ![snippet] = s2],
                                   copy_outputs, order, i + 1,
                                   log \o r.log, stack, ev)
             ELSE parse_outputs_conditions_loop(cache, heap, copy_outputs,
                      order, i + 1, log, stack, ev)

\* outputs is the address of the caller's dict; a returned value is the
\* address of the dict handed back
parse_outputs_conditions(cache, heap, outputs_, stack, ev) ==
    LET c == deepcopy(heap, outputs_)
    IN  parse_outputs_conditions_loop(cache, c.heap, c.ref,
            iteritems(c.heap[c.ref], OutputKeyTable, 1), 1, <<>>, stack, ev)

-----------------------------------------------------------------------------
(* The schema checks.  A value of a resource definition is modelled by its  *)
(* class; a class or abstract base class is named by a string, and          *)
(* InstanceOf gives the classes and registered base classes of an object.   *)

RES_TYPE == "type"
RES_PROPERTIES == "properties"
RES_METADATA == "metadata"
RES_DEPENDS_ON == "depends_on"
RES_DELETION_POLICY == "deletion_policy"
RES_UPDATE_POLICY == "update_policy"
RES_DESCRIPTION == "description"

ResKeys == {RES_TYPE, RES_PROPERTIES, RES_METADATA, RES_DEPENDS_ON,
            RES_DELETION_POLICY, RES_UPDATE_POLICY, RES_DESCRIPTION}

ValueClasses == {"str", "dict", "list", "Function"}

Values == [class : ValueClasses]

InstanceOf(v) ==
    IF v.class = "str" THEN {"str", "string_types", "Sequence"}
    ELSE IF v.class = "dict" THEN {"dict", "Mapping"}
    ELSE IF v.class = "list" THEN {"list", "Sequence"}
    ELSE {v.class}

isinstance(v, valid_types) == InstanceOf(v) \cap valid_types # {}

\* a check that takes a missing key for a mistyped one
validate_resource_key_type_strict(key, valid_types, typename, rsrc_name, rsrc_data) ==
    IF key \in DOMAIN rsrc_data /\ isinstance(rsrc_data[key], valid_types)
    THEN Return(BoolTrue)
    ELSE Raise("TypeError",
               "Resource " \o rsrc_name \o " " \o key
               \o " type must be " \o typename)

validate_resource_key_type(key, valid_types, typename, rsrc_name, rsrc_data) ==
    IF key \in DOMAIN rsrc_data
    THEN IF ~isinstance(rsrc_data[key], valid_types)
         THEN Raise("TypeError",
                    "Resource " \o rsrc_name \o " " \o key
                    \o " type must be " \o typename)
         ELSE Return(BoolTrue)
    ELSE Return(BoolFalse)

\* the checks that follow the one of the type key, the description first
OptionalChecks_description_first ==
    <<[key |-> RES_DESCRIPTION, valid_types |-> {"string_types"},
       typename |-> "string"],
      [key |-> RES_PROPERTIES, valid_types |-> {"Mapping", "Function"},
       typename |-> "object"],
      [key |-> RES_METADATA, valid_types |-> {"Mapping", "Function"},
       typename |-> "object"],
      [key |-> RES_DEPENDS_ON, valid_types |-> {"Sequence"},
       typename |-> "list or string"],
      [key |-> RES_DELETION_POLICY,
       valid_types |-> {"string_types", "Function"}, typename |-> "string"],
      [key |-> RES_UPDATE_POLICY, valid_types |-> {"Mapping", "Function"},
       typename |-> "object"]>>

\* the checks that follow the one of the type key, in order
OptionalChecks ==
    <<[key |-> RES_PROPERTIES, valid_types |-> {"Mapping", "Function"},
       typename |-> "object"],
      [key |-> RES_METADATA, valid_types |-> {"Mapping", "Function"},
       typename |-> "object"],
      [key |-> RES_DEPENDS_ON, valid_types |-> {"Sequence"},
       typename |-> "list or string"],
      [key |-> RES_DELETION_POLICY,
       valid_types |-> {"string_types", "Function"}, typename |-> "string"],
      [key |-> RES_UPDATE_POLICY, valid_types |-> {"Mapping", "Function"},
       typename |-> "object"],
      [key |-> RES_DESCRIPTION, valid_types |-> {"string_types"},
       typename |-> "string"]>>

RECURSIVE validate_optional_keys(_, _, _)
validate_optional_keys(name, data, i) ==
    IF i > Len(OptionalChecks) THEN Return(NoneVal)
    ELSE LET c == OptionalChecks[i]
             r == validate_resource_key_type(c.key, c.valid_types, c.typename,
                                             name, data)
         IN  IF r.kind = "raise" THEN r
             ELSE validate_optional_keys(name, data, i + 1)

\* a validation that looks for the type key after the other keys
validate_resource_definition_type_last(name, data) ==
    LET o == validate_optional_keys(name, data, 1)
    IN  IF o.kind = "raise" THEN o
        ELSE LET r == validate_resource_key_type(RES_TYPE, {"string_types"},
                                                 "string", name, data)
             IN  IF r.kind = "raise" THEN r
                 ELSE IF r.value # BoolTrue
                 THEN Raise("KeyError",
                            "Resource " \o name \o " is missing \""
                            \o RES_TYPE \o "\"")
                 ELSE Return(NoneVal)

_validate_resource_definition(name, data) ==
    LET r == validate_resource_key_type(RES_TYPE, {"string_types"}, "string",
                                        name, data)
    IN  IF r.kind = "raise" THEN r
        ELSE IF r.value # BoolTrue
        THEN Raise("KeyError",
                   "Resource " \o name \o " is missing \"" \o RES_TYPE
                   \o "\"")
        ELSE validate_optional_keys(name, data, 1)

-----------------------------------------------------------------------------
(* The inputs: template instances, snippets, evaluator outcomes *)

DefValues == {BoolTrue, BoolFalse, CondExpr}
EvalOutcomes == {BoolTrue, BoolFalse, StrVal, EvalError}

ResSnippets ==
    {[type |-> "OS::Heat::None"]}
    \cup {[type |-> "OS::Heat::None", condition |-> c] : c \in CondNames}

OutputSnippets ==
    {[value |-> "x"]}
    \cup {[value |-> "x", condition |-> c] : c \in CondNames}

Paths == {"", "outputs.out1.condition"}

\* the definitions that resolve_conditions hands to the evaluator
Unresolved ==
    {k \in DOMAIN get_condition_definitions :
        ~isinstance_bool(get_condition_definitions[k])}

\* what the evaluator may do during one call: an outcome for every
\* definition it can be asked about
Evaluations == [Unresolved -> EvalOutcomes]

\* The evaluator that fails whatever it is asked.  The calls of
\* get_output_condition on a populated cache are made with every evaluator
\* in CallGetOutputCondition; parse_outputs_conditions, which reaches the
\* evaluator through get_output_condition only, is then called with this
\* one, under which any evaluation shows as an error.
Unasked == [k \in Unresolved |-> EvalError]

Idle == <<>>

Threads == {"t1", "t2"}

\* a thread that is not inside conditions()
Outside == [pc |-> "idle", result |-> Idle, ret |-> Idle]

\* the methods that reach the definitions through conditions()
Lookups == {"conditions", "get_condition", "get_res_condition",
            "get_output_condition", "parse_outputs_conditions"}

\* how often the evaluator was handed definition k in one call
Occurrences(log, k) == Cardinality({i \in 1..Len(log) : log[i] = k})

\* The history of the evaluator's calls.  count is over every method,
\* lookups over the methods that go through conditions().  Counting ends
\* at the first evaluation that fails.
NoTally == [failed |-> FALSE, count |-> [k \in Unresolved |-> 0],
            lookups |-> [k \in Unresolved |-> 0]]

Tallied(name, r) ==
    IF tally.failed THEN tally
    ELSE IF r.ret.kind = "raise" /\ r.ret.exc = EvalError
    THEN [NoTally EXCEPT !.failed = TRUE]
    ELSE [failed |-> FALSE,
          count |-> [k \in Unresolved |->
                        tally.count[k] + Occurrences(r.log, k)],
          lookups |-> [k \in Unresolved |->
                        IF name \in Lookups
                        THEN tally.lookups[k] + Occurrences(r.log, k)
                        ELSE tally.lookups[k]]]

Init ==
    /\ dialect \in {"base", "hot"}
    /\ cd_snippet \in IF dialect = "base" THEN {<<>>}
                      ELSE Dicts(CondNames, DefValues)
    /\ _conditions = None
    /\ first = None
    /\ aborted = FALSE
    /\ tally = NoTally
    /\ pc = "ready"
    /\ op = ""
    /\ args = Idle
    /\ pre = Idle
    /\ ret = Idle
    /\ evalLog = <<>>
    /\ outputs = Idle
    /\ threads = [t \in Threads |-> Outside]
    /\ writes = <<>>

\* the caller's call of method name with arguments a ends as r; looked_up
\* tells whether the call went through conditions()
Call(name, a, result, looked_up) ==
    \E r \in {result} :
        /\ tally' = Tallied(name, r)
        /\ \A k \in Unresolved : tally'.count[k] <= MaxEvals
        /\ pc' = "returned"
        /\ op' = name
        /\ args' = a
        /\ pre' = [conditions |-> _conditions, first |-> first,
                   aborted |-> aborted, tally |-> tally]
        /\ ret' = r.ret
        /\ evalLog' = r.log
        /\ _conditions' = r.cache
        /\ first' = IF first # None THEN first
                    ELSE IF name = "conditions" /\ r.ret.kind = "return"
                    THEN Some(r.ret.value)
                    ELSE IF looked_up /\ r.cache # None THEN r.cache
                    ELSE None
        /\ aborted' = IF looked_up
                      THEN r.ret.kind = "raise" /\ r.ret.exc = EvalError
                      ELSE aborted
        /\ UNCHANGED <<dialect, cd_snippet, threads, writes>>

CallValidateConditionDefinitions ==
    /\ pc = "ready"
    /\ \E stack \in Stacks, ev \in Evaluations :
        /\ Call("validate_condition_definitions",
                [stack |-> stack, ev |-> ev],
                validate_condition_definitions(_conditions, stack, ev), FALSE)
        /\ outputs' = Idle

CallResolveConditions ==
    /\ pc = "ready"
    /\ \E stack \in Stacks, ev \in Evaluations :
        /\ Call("resolve_conditions", [stack |-> stack, ev |-> ev],
                resolve_conditions(_conditions, stack, ev), FALSE)
        /\ outputs' = Idle

CallConditions ==
    /\ pc = "ready"
    /\ \E stack \in Stacks, ev \in Evaluations :
        /\ Call("conditions", [stack |-> stack, ev |-> ev],
                conditions(_conditions, stack, ev), TRUE)
        /\ outputs' = Idle

CallGetCondition ==
    /\ pc = "ready"
    /\ \E snippet \in ResSnippets \cup OutputSnippets, stack \in Stacks,
       path \in Paths :
        \E ev \in Evaluations :
            /\ Call("get_condition",
                    [snippet |-> snippet, stack |-> stack, path |-> path,
                     ev |-> ev],
                    get_condition(_conditions, snippet, stack, path, ev),
                    has_condition_section(snippet))
            /\ outputs' = Idle

CallGetResCondition ==
    /\ pc = "ready"
    /\ \E res_data \in ResSnippets, res_name \in ResNames, stack \in Stacks :
        \E ev \in Evaluations :
            /\ Call("get_res_condition",
                    [stack |-> stack, res_data |-> res_data,
                     res_name |-> res_name, ev |-> ev],
                    get_res_condition(_conditions, stack, res_data, res_name,
                                      ev),
                    has_condition_section(res_data))
            /\ outputs' = Idle

CallGetOutputCondition ==
    /\ pc = "ready"
    /\ \E o_data \in OutputSnippets, o_key \in OutputKeys, stack \in Stacks :
        \E ev \in Evaluations :
            /\ Call("get_output_condition",
                    [stack |-> stack, o_data |-> o_data, o_key |-> o_key,
                     ev |-> ev],
                    get_output_condition(_conditions, stack, o_data, o_key,
                                         ev),
                    has_condition_section(o_data))
            /\ outputs' = Idle

CallParseOutputsConditions ==
    /\ pc = "ready"
    /\ \E outs \in Dicts(OutputKeys, OutputSnippets), stack \in Stacks :
        LET conditional == \E k \in DOMAIN outs :
                               has_condition_section(outs[k])
        IN  \E ev \in IF _conditions = None THEN Evaluations ELSE {Unasked} :
                \E r \in {parse_outputs_conditions(_conditions,
                               new_heap(outs), 1, stack, ev)} :
                    /\ Call("parse_outputs_conditions",
                            [outputs |-> outs, stack |-> stack, ev |-> ev],
                            [ret |-> IF r.ret.kind = "return"
                                     THEN Return(deref(r.heap, r.ret.value))
                                     ELSE r.ret,
                             cache |-> r.cache, log |-> r.log],
                            conditional)
                    /\ outputs' = deref(r.heap, 1)

\* the caller takes the result and is ready for its next call
Continue ==
    /\ pc = "returned"
    /\ pc' = "ready"
    /\ op' = ""
    /\ args' = Idle
    /\ pre' = Idle
    /\ ret' = Idle
    /\ evalLog' = <<>>
    /\ outputs' = Idle
    /\ UNCHANGED <<dialect, cd_snippet, _conditions, first, aborted, tally,
                   threads, writes>>

Next ==
    \/ CallValidateConditionDefinitions
    \/ CallResolveConditions
    \/ CallConditions
    \/ CallGetCondition
    \/ CallGetResCondition
    \/ CallGetOutputCondition
    \/ CallParseOutputsConditions
    \/ Continue

Spec == Init /\ [][Next]_vars

-----------------------------------------------------------------------------
(* Two threads call conditions() on one instance.  The method takes no      *)
(* lock, so a thread can be preempted between its test of self._conditions, *)
(* its call of resolve_conditions, its assignment and its return.           *)
(* resolve_conditions works on a dict of its own and on the definitions,    *)
(* which nothing writes, so it is taken as one step.                        *)

Caller == <<pc, op, args, pre, ret, evalLog, outputs, first, aborted>>

ThreadCall(t) ==
    /\ threads[t].pc = "idle"
    /\ threads' = [threads EXCEPT ![t].pc = "check"]
    /\ UNCHANGED <<dialect, cd_snippet, _conditions, tally, writes, Caller>>

ThreadCheck(t) ==
    /\ threads[t].pc = "check"
    /\ threads' = [threads EXCEPT ![t].pc =
                       IF conditions_check(_conditions) THEN "resolve"
                       ELSE "return"]
    /\ UNCHANGED <<dialect, cd_snippet, _conditions, tally, writes, Caller>>

ThreadResolve(t) ==
    /\ threads[t].pc = "resolve"
    /\ \E stack \in Stacks, ev \in Evaluations :
           \E r \in {resolve_conditions(_conditions, stack, ev)} :
               /\ tally' = Tallied("conditions", r)
               /\ \A k \in Unresolved : tally'.count[k] <= MaxEvals
               /\ threads' = [threads EXCEPT ![t] =
                                  IF r.ret.kind = "raise"
                                  THEN [pc |-> "done", result |-> Idle,
                                        ret |-> r.ret]
                                  ELSE [pc |-> "store",
                                        result |-> r.ret.value,
                                        ret |-> Idle]]
    /\ UNCHANGED <<dialect, cd_snippet, _conditions, writes, Caller>>

ThreadStore(t) ==
    /\ threads[t].pc = "store"
    /\ _conditions' = conditions_store(_conditions, threads[t].result)
    /\ writes' = Append(writes, [thread |-> t, value |-> threads[t].result])
    /\ threads' = [threads EXCEPT ![t].pc = "return"]
    /\ UNCHANGED <<dialect, cd_snippet, tally, Caller>>

ThreadReturn(t) ==
    /\ threads[t].pc = "return"
    /\ threads' = [threads EXCEPT ![t].pc = "done",
                                  ![t].ret = conditions_return(_conditions)]
    /\ UNCHANGED <<dialect, cd_snippet, _conditions, tally, writes, Caller>>

\* the thread takes the result and may call again
ThreadContinue(t) ==
    /\ threads[t].pc = "done"
    /\ threads' = [threads EXCEPT ![t] = Outside]
    /\ UNCHANGED <<dialect, cd_snippet, _conditions, tally, writes, Caller>>

NextThreads ==
    \E t \in Threads :
        \/ ThreadCall(t)
        \/ ThreadCheck(t)
        \/ ThreadResolve(t)
        \/ ThreadStore(t)
        \/ ThreadReturn(t)
        \/ ThreadContinue(t)

SpecThreads == Init /\ [][NextThreads]_vars

-----------------------------------------------------------------------------
(* The schema checks read nothing of the instance: their specification      *)
(* keeps one template and lets the caller call them on every input.         *)

TypeSets == SUBSET {"string_types", "Mapping", "Sequence", "Function"} \ {{}}
TypeNames == {"string", "object"}

InitSchema ==
    /\ dialect = "base"
    /\ cd_snippet = <<>>
    /\ _conditions = None
    /\ first = None
    /\ aborted = FALSE
    /\ tally = NoTally
    /\ pc = "ready"
    /\ op = ""
    /\ args = Idle
    /\ pre = Idle
    /\ ret = Idle
    /\ evalLog = <<>>
    /\ outputs = Idle
    /\ threads = [t \in Threads |-> Outside]
    /\ writes = <<>>

CallSchema(name, a, r) ==
    /\ pc' = "returned"
    /\ op' = name
    /\ args' = a
    /\ ret' = r
    /\ UNCHANGED <<dialect, cd_snippet, _conditions, first, aborted, tally,
                   pre, evalLog, outputs, threads, writes>>

CallValidateResourceKeyType ==
    /\ pc = "ready"
    /\ \E key \in {RES_TYPE, RES_PROPERTIES, RES_DEPENDS_ON},
          valid_types \in TypeSets, typename \in TypeNames,
          rsrc_name \in ResNames,
          rsrc_data \in Dicts({RES_TYPE, RES_DEPENDS_ON}, Values) :
           CallSchema("validate_resource_key_type",
                      [key |-> key, valid_types |-> valid_types,
                       typename |-> typename, rsrc_name |-> rsrc_name,
                       rsrc_data |-> rsrc_data],
                      validate_resource_key_type(key, valid_types, typename,
                                                 rsrc_name, rsrc_data))

CallValidateResourceDefinition ==
    /\ pc = "ready"
    /\ \E name \in ResNames, data \in Dicts(ResKeys, Values) :
           CallSchema("_validate_resource_definition",
                      [name |-> name, data |-> data],
                      _validate_resource_definition(name, data))

ContinueSchema ==
    /\ pc = "returned"
    /\ pc' = "ready"
    /\ op' = ""
    /\ args' = Idle
    /\ ret' = Idle
    /\ UNCHANGED <<dialect, cd_snippet, _conditions, first, aborted, tally,
                   pre, evalLog, outputs, threads, writes>>

NextSchema ==
    \/ CallValidateResourceKeyType
    \/ CallValidateResourceDefinition
    \/ ContinueSchema

SpecSchema == InitSchema /\ [][NextSchema]_vars

-----------------------------------------------------------------------------
(* Vocabulary of the properties *)

Returned(name) == pc = "returned" /\ op = name

\* the definitions, in the order resolve_conditions meets them
DefinedOrder == iteritems(get_condition_definitions, CondNameTable, 1)

IsUnresolved(k) == ~isinstance_bool(get_condition_definitions[k])

\* the evaluator fails on some definition in the call just made
EvalFails == \E k \in Unresolved : args.ev[k] = EvalError

\* the position in DefinedOrder of the first definition the evaluator
\* fails on
FirstFailure ==
    CHOOSE i \in 1..Len(DefinedOrder) :
        /\ IsUnresolved(DefinedOrder[i])
        /\ args.ev[DefinedOrder[i]] = EvalError
        /\ \A j \in 1..(i - 1) :
               IsUnresolved(DefinedOrder[j])
                   => args.ev[DefinedOrder[j]] # EvalError

\* what a resolution from scratch hands to the evaluator in the call just made
ScratchLog ==
    SelectSeq(IF EvalFails THEN SubSeq(DefinedOrder, 1, FirstFailure)
              ELSE DefinedOrder,
              IsUnresolved)

\* what the condition named k resolves to in a resolution from scratch
ScratchValue(k) ==
    IF IsUnresolved(k) THEN args.ev[k] ELSE get_condition_definitions[k]

\* what the condition named k resolves to for the call just made
ResolvedValue(k) ==
    IF pre.conditions # None THEN pre.conditions[1][k] ELSE ScratchValue(k)

\* the call just made goes through conditions() with the cache unpopulated
LooksUpUnpopulated ==
    /\ pc = "returned"
    /\ pre.conditions = None
    /\ \/ op = "conditions"
       \/ op = "get_condition" /\ has_condition_section(args.snippet)
       \/ op = "get_res_condition" /\ has_condition_section(args.res_data)
       \/ op = "get_output_condition" /\ has_condition_section(args.o_data)
       \/ op = "parse_outputs_conditions"
          /\ \E k \in DOMAIN args.outputs :
                 has_condition_section(args.outputs[k])

-----------------------------------------------------------------------------
(* C1: once a conditions() call has returned, every later conditions()     *)
(* call, whatever its stack, returns that same mapping and does not call    *)
(* the evaluator.                                                           *)

C1_ConditionsIdempotent ==
    (Returned("conditions") /\ pre.first # None)
        => /\ ret.kind = "return"
           /\ ret.value = pre.first[1]
           /\ evalLog = <<>>

\* a later call on an instance with evaluated definitions, whose evaluator
\* would now answer differently
C1_Witness ==
    /\ Returned("conditions")
    /\ pre.first # None
    /\ \E k \in Unresolved : args.ev[k] # pre.first[1][k]

(* C2: every entry of the condition cache is a boolean.                     *)

C2_CacheEntriesBoolean ==
    _conditions # None
        => \A k \in DOMAIN _conditions[1] : isinstance_bool(_conditions[1][k])

(* C3: when the evaluator fails during a lookup made with the cache         *)
(* unpopulated, the caller gets that failure, nothing is cached, and the    *)
(* next conditions() call resolves from the first definition again.         *)

C3_FailureLeavesCacheUnpopulated ==
    /\ (LooksUpUnpopulated /\ EvalFails)
           => /\ ret = Raise(EvalError, <<DefinedOrder[FirstFailure]>>)
              /\ _conditions = None
    /\ (Returned("conditions") /\ pre.aborted)
           => /\ pre.conditions = None
              /\ evalLog = ScratchLog
              /\ ret.kind = "return"
                     => /\ DOMAIN ret.value = DOMAIN get_condition_definitions
                        /\ \A k \in DOMAIN ret.value :
                               ret.value[k] = ScratchValue(k)

\* a conditions() call after an aborted one that fails again, after a first
\* definition was evaluated
C3_Witness ==
    /\ Returned("conditions")
    /\ pre.aborted
    /\ EvalFails
    /\ Len(evalLog) = 2

(* C4: parse_outputs_conditions returns a mapping with the keys of outputs; *)
(* an output with a condition section has value None and condition False    *)
(* when its condition resolves to false, and its own value and condition    *)
(* True when it resolves to true; an output without a condition section is  *)
(* returned equal to its input.                                             *)

C4_OutputsConditionsApplied ==
    (Returned("parse_outputs_conditions") /\ ret.kind = "return")
        => /\ DOMAIN ret.value = DOMAIN args.outputs
           /\ \A k \in DOMAIN args.outputs :
                  LET o_in == args.outputs[k]
                      o_out == ret.value[k]
                  IN  IF has_condition_section(o_in)
                      THEN /\ ResolvedValue(o_in[CONDITION]) = BoolFalse
                                  => /\ o_out[OUTPUT_VALUE] = NoneVal
                                     /\ o_out[OUTPUT_CONDITION] = BoolFalse
                           /\ ResolvedValue(o_in[CONDITION]) = BoolTrue
                                  => /\ o_out[OUTPUT_VALUE]
                                            = o_in[OUTPUT_VALUE]
                                     /\ o_out[OUTPUT_CONDITION] = BoolTrue
                           /\ DOMAIN o_out = DOMAIN o_in
                      ELSE o_out = o_in

\* one output suppressed by a false condition, one kept by a true one
C4_Witness ==
    /\ Returned("parse_outputs_conditions")
    /\ ret.kind = "return"
    /\ \E j, k \in DOMAIN args.outputs :
           /\ has_condition_section(args.outputs[j])
           /\ has_condition_section(args.outputs[k])
           /\ ResolvedValue(args.outputs[j][CONDITION]) = BoolFalse
           /\ ResolvedValue(args.outputs[k][CONDITION]) = BoolTrue

(* C5: parse_outputs_conditions leaves the outputs mapping it was given as  *)
(* it was, whether it returns or raises.                                    *)

C5_OutputsNotMutated ==
    Returned("parse_outputs_conditions") => outputs = args.outputs

\* the call raises on an undefined condition after it has rewritten, in its
\* copy, an output whose condition is false
C5_Witness ==
    /\ Returned("parse_outputs_conditions")
    /\ ret.kind = "raise"
    /\ ret.exc = "InvalidConditionReference"
    /\ \E j, k \in DOMAIN args.outputs :
           /\ IndexOf(OutputKeyTable, j) < IndexOf(OutputKeyTable, k)
           /\ has_condition_section(args.outputs[j])
           /\ args.outputs[j][CONDITION] \in DOMAIN get_condition_definitions
           /\ ResolvedValue(args.outputs[j][CONDITION]) = BoolFalse
           /\ has_condition_section(args.outputs[k])
           /\ args.outputs[k][CONDITION] = ret.args.cd

(* C6: a resource or output snippet whose condition section names a        *)
(* condition that is not defined makes get_res_condition raise              *)
(* InvalidConditionReference with that name and the path                    *)
(* resources.<name>.condition, and get_output_condition raise it with the   *)
(* path outputs.<key>.condition.                                            *)

\* the call just made got a resolved mapping, of which name is no key
UndefinedIn(snippet) ==
    /\ has_condition_section(snippet)
    /\ ~(ret.kind = "raise" /\ ret.exc = EvalError)
    /\ snippet[CONDITION] \notin DOMAIN get_condition_definitions

C6_UndefinedConditionReference ==
    /\ (Returned("get_res_condition") /\ UndefinedIn(args.res_data))
           => ret = Raise("InvalidConditionReference",
                          [cd |-> args.res_data[CONDITION],
                           path |-> "resources." \o args.res_name
                                    \o ".condition"])
    /\ (Returned("get_output_condition") /\ UndefinedIn(args.o_data))
           => ret = Raise("InvalidConditionReference",
                          [cd |-> args.o_data[CONDITION],
                           path |-> "outputs." \o args.o_key
                                    \o ".condition"])

\* an undefined reference met on an instance whose other conditions resolved
C6_Witness ==
    /\ Returned("get_output_condition")
    /\ UndefinedIn(args.o_data)
    /\ pre.conditions = None
    /\ evalLog # <<>>

(* C7: when some definition resolves to a non-boolean,                      *)
(* validate_condition_definitions raises InvalidConditionDefinition with    *)
(* that condition and its value, while resolve_conditions returns the       *)
(* mapping holding that value; when every value resolved is boolean,        *)
(* validate_condition_definitions raises nothing.                           *)

NonBoolean == {k \in DOMAIN get_condition_definitions :
                  ~isinstance_bool(ScratchValue(k))}

C7_NonBooleanDefinition ==
    /\ (Returned("validate_condition_definitions") /\ ~EvalFails)
           => IF NonBoolean # {}
              THEN /\ ret.kind = "raise"
                   /\ ret.exc = "InvalidConditionDefinition"
                   /\ ret.args.cd \in NonBoolean
                   /\ ret.args.definition = args.ev[ret.args.cd]
              ELSE ret = Return(NoneVal)
    /\ (Returned("resolve_conditions") /\ ~EvalFails)
           => /\ ret.kind = "return"
              /\ DOMAIN ret.value = DOMAIN get_condition_definitions
              /\ \A k \in NonBoolean : ret.value[k] = args.ev[k]

\* validation rejects a string-valued condition that follows a boolean one
C7_Witness ==
    /\ Returned("validate_condition_definitions")
    /\ ~EvalFails
    /\ ret.kind = "raise"
    /\ ret.args.definition = StrVal
    /\ \E k \in Unresolved : args.ev[k] = BoolTrue

(* C8: for a snippet without a condition section get_condition returns True *)
(* whatever the stack, path, cache and definitions; it raises nothing,      *)
(* calls no evaluator and leaves the cache as it was.                       *)

C8_NoConditionSection ==
    (Returned("get_condition") /\ ~has_condition_section(args.snippet))
        => /\ ret = Return(BoolTrue)
           /\ evalLog = <<>>
           /\ _conditions = pre.conditions

\* the cache is unpopulated and the evaluator would fail if it were asked
C8_Witness ==
    /\ Returned("get_condition")
    /\ ~has_condition_section(args.snippet)
    /\ dialect = "hot"
    /\ pre.conditions = None
    /\ EvalFails

(* C9: validate_resource_key_type has three outcomes: key absent, it        *)
(* returns False; key present with a value of an allowed type, it returns   *)
(* True; key present with a value of no allowed type, it raises TypeError   *)
(* with the resource name, the key and the type name.                       *)

\* the value is of one of the allowed types
Allowed(v, valid_types) ==
    \E t \in valid_types :
        <<v.class, t>> \in {<<"str", "string_types">>, <<"str", "Sequence">>,
                           <<"list", "Sequence">>, <<"dict", "Mapping">>,
                           <<"Function", "Function">>}

C9_KeyTypeOutcomes ==
    Returned("validate_resource_key_type")
        => IF args.key \notin DOMAIN args.rsrc_data
           THEN ret = Return(BoolFalse)
           ELSE IF Allowed(args.rsrc_data[args.key], args.valid_types)
           THEN ret = Return(BoolTrue)
           ELSE ret = Raise("TypeError",
                            "Resource " \o args.rsrc_name \o " " \o args.key
                            \o " type must be " \o args.typename)

\* a list given where a string or a mapping is allowed
C9_Witness ==
    /\ Returned("validate_resource_key_type")
    /\ args.key \in DOMAIN args.rsrc_data
    /\ args.rsrc_data[args.key].class = "list"
    /\ args.valid_types = {"string_types", "Mapping"}
    /\ ret.kind = "raise"

(* C10: _validate_resource_definition on data without the type key raises   *)
(* KeyError naming the resource and the key, whatever the other keys hold.  *)

C10_MissingTypeKey ==
    (Returned("_validate_resource_definition")
     /\ RES_TYPE \notin DOMAIN args.data)
        => ret = Raise("KeyError",
                       "Resource " \o args.name \o " is missing \""
                       \o RES_TYPE \o "\"")

\* the type key is missing and the properties are of a wrong type
C10_Witness ==
    /\ Returned("_validate_resource_definition")
    /\ RES_TYPE \notin DOMAIN args.data
    /\ RES_PROPERTIES \in DOMAIN args.data
    /\ args.data[RES_PROPERTIES].class = "list"
    /\ RES_DESCRIPTION \in DOMAIN args.data
    /\ args.data[RES_DESCRIPTION].class = "str"

(* C11: over any sequence of calls of validate_condition_definitions,       *)
(* resolve_conditions, conditions, get_condition, get_res_condition,        *)
(* get_output_condition and parse_outputs_conditions in which no evaluation *)
(* fails, function.resolve is called at most once for each definition that  *)
(* is not a literal boolean.  This is the claim as the specification states *)
(* it; the code does not keep to it.                                        *)

C11_EvaluatedAtMostOnce ==
    ~tally.failed => \A k \in Unresolved : tally.count[k] <= 1

(* C11, amended: over any such sequence, the calls that go through          *)
(* conditions() (conditions, get_condition, get_res_condition,              *)
(* get_output_condition, parse_outputs_conditions) call function.resolve at *)
(* most once in all for each definition that is not a literal boolean;      *)
(* every call of validate_condition_definitions or resolve_conditions hands *)
(* each such definition to function.resolve again.                          *)

C11_LookupsEvaluateAtMostOnce ==
    /\ ~tally.failed => \A k \in Unresolved : tally.lookups[k] <= 1
    /\ (pc = "returned" /\ op \notin Lookups) => evalLog = ScratchLog

\* conditions() called after it has resolved a definition and
\* resolve_conditions has resolved it a second time
C11_Witness ==
    /\ Returned("conditions")
    /\ ~tally.failed
    /\ \E k \in Unresolved :
           /\ pre.tally.lookups[k] = 1
           /\ pre.tally.count[k] = 2
           /\ tally.lookups[k] = 1

(* C12: once self._conditions holds a dict it holds that dict for good: no  *)
(* step sets it back to None or to another mapping, the calls of            *)
(* get_condition and parse_outputs_conditions included.                     *)

C12_ResolvedIsTerminal ==
    [][_conditions # None => _conditions' = _conditions]_vars

\* parse_outputs_conditions, called on a populated cache, has looked up a
\* condition that is false and blanked the output
C12_Witness ==
    /\ Returned("parse_outputs_conditions")
    /\ pre.conditions # None
    /\ _conditions = pre.conditions
    /\ \E k \in DOMAIN args.outputs :
           /\ has_condition_section(args.outputs[k])
           /\ args.outputs[k][CONDITION] \in DOMAIN pre.conditions[1]
           /\ pre.conditions[1][args.outputs[k][CONDITION]] = BoolFalse
           /\ ret.kind = "return"
           /\ ret.value[k] # args.outputs[k]

(* C14: resolve_conditions returns a mapping built in the call, with the    *)
(* keys of the definitions; a literal boolean definition maps to itself,    *)
(* any other to what function.resolve returns for it.  function.resolve is  *)
(* called exactly once for each definition that is not a literal boolean    *)
(* and never for a literal one, whatever self._conditions holds.            *)

C14_ResolveConditionsResult ==
    Returned("resolve_conditions")
        => /\ \A k \in DOMAIN get_condition_definitions :
                  Occurrences(evalLog, k)
                      <= (IF IsUnresolved(k) THEN 1 ELSE 0)
           /\ ~EvalFails
                  => /\ ret.kind = "return"
                     /\ DOMAIN ret.value = DOMAIN get_condition_definitions
                     /\ \A k \in DOMAIN ret.value :
                            /\ ret.value[k] = ScratchValue(k)
                            /\ Occurrences(evalLog, k)
                                   = (IF IsUnresolved(k) THEN 1 ELSE 0)

\* a literal and an expression resolved together, on an instance whose
\* cache holds another value for the expression
C14_Witness ==
    /\ Returned("resolve_conditions")
    /\ ret.kind = "return"
    /\ pre.conditions # None
    /\ \E k, l \in DOMAIN ret.value :
           /\ IsUnresolved(k)
           /\ ret.value[k] # pre.conditions[1][k]
           /\ ~IsUnresolved(l)
           /\ ret.value[l] = get_condition_definitions[l]

(* C16: validate_condition_definitions and resolve_conditions neither read  *)
(* nor write self._conditions: a call leaves it as it was, and ends and     *)
(* calls function.resolve as it would on an instance that has cached        *)
(* nothing.                                                                 *)

C16_ValidationBypassesCache ==
    /\ Returned("resolve_conditions")
           => /\ _conditions = pre.conditions
              /\ LET r == resolve_conditions(None, args.stack, args.ev)
                 IN  ret = r.ret /\ evalLog = r.log
    /\ Returned("validate_condition_definitions")
           => /\ _conditions = pre.conditions
              /\ LET r == validate_condition_definitions(None, args.stack,
                                                         args.ev)
                 IN  ret = r.ret /\ evalLog = r.log

\* the cache holds booleans only, and validation rejects what the
\* evaluator now returns
C16_Witness ==
    /\ Returned("validate_condition_definitions")
    /\ pre.conditions # None
    /\ \A k \in DOMAIN pre.conditions[1] :
           isinstance_bool(pre.conditions[1][k])
    /\ ret.kind = "raise"
    /\ ret.exc = "InvalidConditionDefinition"
    /\ evalLog # <<>>
    /\ _conditions = pre.conditions

(* C17: a lookup that raises InvalidConditionReference on an instance whose *)
(* cache was unpopulated leaves self._conditions holding the whole resolved *)
(* mapping: the resolution is done before the name is looked up.  The calls *)
(* that follow find the cache populated and do not call function.resolve.   *)

C17_FailedLookupPopulates ==
    /\ (LooksUpUnpopulated /\ ret.kind = "raise"
         /\ ret.exc = "InvalidConditionReference")
           => /\ _conditions # None
              /\ DOMAIN _conditions[1] = DOMAIN get_condition_definitions
              /\ \A k \in DOMAIN _conditions[1] :
                     _conditions[1][k] = ScratchValue(k)
              /\ evalLog = ScratchLog
    /\ (pc = "returned" /\ op \in Lookups /\ pre.conditions # None)
           => evalLog = <<>>

\* a resource names an undefined condition; the one defined condition has
\* been evaluated and cached all the same
C17_Witness ==
    /\ Returned("get_res_condition")
    /\ pre.conditions = None
    /\ ret.kind = "raise"
    /\ ret.exc = "InvalidConditionReference"
    /\ evalLog # <<>>
    /\ _conditions # None
    /\ _conditions[1] # <<>>

(* C15: _validate_resource_definition fails fast over the checks of type,   *)
(* properties, metadata, depends_on, deletion_policy, update_policy and     *)
(* description, in that order: it raises the error of the first check that  *)
(* fails.  A type key that is present with a value that is not a string     *)
(* raises TypeError, not KeyError.  It returns without error exactly when   *)
(* type is a string and every other key is absent or of an allowed kind.    *)

FieldOrder ==
    <<RES_TYPE, RES_PROPERTIES, RES_METADATA, RES_DEPENDS_ON,
      RES_DELETION_POLICY, RES_UPDATE_POLICY, RES_DESCRIPTION>>

\* the kinds of value a field may hold
AllowedVariants(key) ==
    IF key \in {RES_TYPE, RES_DESCRIPTION} THEN {"str"}
    ELSE IF key = RES_DEPENDS_ON THEN {"list", "str"}
    ELSE IF key = RES_DELETION_POLICY THEN {"str", "Function"}
    ELSE {"dict", "Function"}

TypeLabel(key) ==
    IF key \in {RES_TYPE, RES_DESCRIPTION, RES_DELETION_POLICY} THEN "string"
    ELSE IF key = RES_DEPENDS_ON THEN "list or string"
    ELSE "object"

\* the check of the i-th field fails on the data of the call just made
CheckFails(i) ==
    LET key == FieldOrder[i]
    IN  IF key \in DOMAIN args.data
        THEN args.data[key].class \notin AllowedVariants(key)
        ELSE key = RES_TYPE

C15_FailFastInOrder ==
    Returned("_validate_resource_definition")
        => IF \E i \in 1..Len(FieldOrder) : CheckFails(i)
           THEN LET i == CHOOSE i \in 1..Len(FieldOrder) :
                             /\ CheckFails(i)
                             /\ \A j \in 1..(i - 1) : ~CheckFails(j)
                    key == FieldOrder[i]
                IN  IF key \in DOMAIN args.data
                    THEN ret = Raise("TypeError",
                                     "Resource " \o args.name \o " " \o key
                                     \o " type must be " \o TypeLabel(key))
                    ELSE ret = Raise("KeyError",
                                     "Resource " \o args.name
                                     \o " is missing \"" \o RES_TYPE \o "\"")
           ELSE ret = Return(NoneVal)

\* the type is a list and the description a mapping: the error is the
\* one of the type
C15_Witness ==
    /\ Returned("_validate_resource_definition")
    /\ RES_TYPE \in DOMAIN args.data
    /\ args.data[RES_TYPE].class = "list"
    /\ RES_DESCRIPTION \in DOMAIN args.data
    /\ args.data[RES_DESCRIPTION].class = "dict"
    /\ ret.kind = "raise"
    /\ ret.exc = "TypeError"

(* C13: conditions() does not guard its test and assignment.  Two threads   *)
(* that call it before the cache is populated can both find it None; each   *)
(* then runs resolve_conditions in full, so every definition that is not a  *)
(* literal boolean is evaluated twice, and each assigns its result, the     *)
(* second assignment replacing the first.                                   *)

C13_UnguardedPopulate ==
    /\ writes # <<>> => _conditions = Some(writes[Len(writes)].value)
    /\ (Len(writes) = 2 /\ ~tally.failed)
           => /\ writes[1].thread # writes[2].thread
              /\ \A k \in Unresolved : tally.count[k] = 2

\* both threads have assigned; the first has returned its own mapping,
\* and the cache now holds the other one
C13_Witness ==
    /\ Len(writes) = 2
    /\ ~tally.failed
    /\ Unresolved # {}
    /\ writes[1].value # writes[2].value
    /\ threads[writes[1].thread].ret = Return(writes[1].value)
    /\ _conditions = Some(writes[2].value)

(* C18: in every reachable state, under every interleaving of two threads   *)
(* calling conditions() and with evaluations that fail, self._conditions is *)
(* None or a mapping whose keys are exactly the defined condition names.    *)

C18_CacheCompleteOrUnpopulated ==
    _conditions # None
        => DOMAIN _conditions[1] = DOMAIN get_condition_definitions

\* one thread's resolution has failed on the second of two definitions
\* while the other thread holds a complete mapping it has yet to assign
C18_Witness ==
    /\ _conditions = None
    /\ tally.failed
    /\ \E t, u \in Threads :
           /\ threads[t].pc = "done"
           /\ threads[t].ret.kind = "raise"
           /\ Len(DefinedOrder) >= 2
           /\ threads[t].ret.args = <<DefinedOrder[2]>>
           /\ IsUnresolved(DefinedOrder[1])
           /\ threads[u].pc = "store"
           /\ DOMAIN threads[u].result = DOMAIN get_condition_definitions

====
